---- MODULE Spec2Model ----
(***************************************************************************)
(* Model of backend/main.py: the FastAPI chatbot service with a general    *)
(* chat endpoint and a retrieval (RAG) chat over one uploaded PDF.         *)
(*                                                                         *)
(* Two process-wide globals, vector_db_instance and pdf_loaded, are the    *)
(* program state.  The disk holds the temporary files upload_pdf creates.  *)
(* External collaborators (PDF loader, splitter, embedder, retriever, LLM) *)
(* are inputs: each either raises or returns a value drawn from a small    *)
(* set.                                                                    *)
(*                                                                         *)
(* upload_pdf, pdf_chat, general_chat, get_status and clear_pdf are        *)
(* coroutines without an await: the single event loop of uvicorn.run runs  *)
(* each handler to completion before it starts the next, so an action of   *)
(* Spec is one whole handler.                                              *)
(***************************************************************************)
EXTENDS Integers, Sequences, FiniteSets, TLC

VARIABLES
    vector_db_instance, \* main.py:35   the current index, None when absent
    pdf_loaded,         \* main.py:36   the "document loaded" flag
    tmp_files,          \* temp files on disk left by upload_pdf (main.py:150,167)
    nUploads,           \* number of upload requests received so far
    resp,               \* the response of the most recently completed request
    lastOk              \* most recent upload / DELETE that returned success

vars == <<vector_db_instance, pdf_loaded, tmp_files, nUploads, resp, lastOk>>

----------------------------------------------------------------------------
(* Bounds *)

MaxUploads == 2     \* upload requests per behaviour
MaxHistory == 2     \* length of a supplied chat history
MaxDocs    == 3     \* chunks returned by one retrieval

----------------------------------------------------------------------------
(* Values *)

\* Python None for the index slot; an index is [pdf, up]: the PDF it was
\* built from and the upload request that built it.
None == [pdf |-> "None", up |-> 0]

Pdfs == {"A", "B"}

\* File names are character sequences so that str.endswith is computed.
PdfSuffix == <<".", "p", "d", "f">>

Filenames ==
    { <<"a", ".", "p", "d", "f">>,         \* a.pdf
      <<"n", ".", "t", "x", "t">>,         \* n.txt
      <<"p", "d", "f">>,                   \* pdf   (shorter than the suffix)
      <<"c", ".", "P", "D", "F">> }        \* c.PDF (the test is case-sensitive)

\* str.endswith(suffix)
endswith(s, suffix) ==
    /\ Len(s) >= Len(suffix)
    /\ SubSeq(s, Len(s) - Len(suffix) + 1, Len(s)) = suffix

\* Exceptions: kind "none" is normal completion.
NoExc == [kind |-> "none", status_code |-> 0, detail |-> ""]
HTTPException(code, detail) == [kind |-> "HTTPException", status_code |-> code, detail |-> detail]
OtherException(detail) == [kind |-> "Exception", status_code |-> 0, detail |-> detail]

\* Sequences over S of length at most n.
SeqsUpTo(S, n) == UNION { [1..k -> S] : k \in 0..n }

\* A response: one record shape for every endpoint, unused fields at default.
NoResp ==
    [ op |-> "none", status |-> 0, detail |-> "",
      filename |-> <<>>, fail |-> "",
      pdf_chat |-> "", pdf_loaded |-> FALSE,
      rag |-> FALSE, index |-> None, docs |-> <<>>, sources |-> <<>>,
      history |-> [tag |-> "omitted", val |-> <<>>], message |-> "",
      llm_called |-> FALSE, llm_messages |-> <<>>, response |-> "" ]

----------------------------------------------------------------------------
(* GET /status                                                    main.py:114 *)

get_status ==
    /\ resp' = [NoResp EXCEPT
                  !.op = "get_status", !.status = 200,
                  !.pdf_chat = IF pdf_loaded THEN "Available" ELSE "No PDF loaded",
                  !.pdf_loaded = pdf_loaded]
    /\ UNCHANGED <<vector_db_instance, pdf_loaded, tmp_files, nUploads, lastOk>>

----------------------------------------------------------------------------
(* POST /upload-pdf                                               main.py:139 *)

\* Where the body of the try block can raise, besides the extension check
\* (which the file name decides).  mktemp: NamedTemporaryFile itself raises
\* and no file exists; write: copyfileobj raises with the file created.
\* unlink_denied: os.unlink raises and the file stays; unlink_missing:
\* os.unlink raises because the file is gone.
FailPoints ==
    {"none", "mktemp", "write", "load", "split", "embed", "unlink_denied", "unlink_missing"}

\* The statements of the try block, in program order.
StageNo(stage) ==
    CASE stage = "ext"    -> 1     \* line 146
      [] stage = "mktemp" -> 2     \* line 150
      [] stage = "write"  -> 3     \* lines 151-152
      [] stage = "load"   -> 4     \* line 156
      [] stage = "split"  -> 5     \* line 159
      [] stage = "embed"  -> 6     \* line 162 (right-hand side)
      [] stage = "unlink" -> 7     \* line 167
      [] OTHER            -> 8     \* line 169, the return

\* The statement that raises for this request (8: none does).
FailStage(filename, fail) ==
    IF ~endswith(filename, PdfSuffix) THEN StageNo("ext")
    ELSE IF fail \in {"unlink_denied", "unlink_missing"} THEN StageNo("unlink")
    ELSE StageNo(fail)

\* The exception leaving the try block's body.
UploadBodyException(filename, fail) ==
    IF ~endswith(filename, PdfSuffix)
    THEN HTTPException(400, "Only PDF files are allowed")
    ELSE IF fail = "none" THEN NoExc ELSE OtherException(fail)

\* except Exception as e: raise HTTPException(500, ...).  HTTPException is
\* an Exception, so the handler's own 400 is caught and re-raised as 500.
UploadRaised(exc) ==
    IF exc.kind = "none" THEN NoExc
    ELSE HTTPException(500, "Error processing PDF")

\* Line 150 completed: the NamedTemporaryFile(delete=False) exists.
TempCreated(filename, fail) == FailStage(filename, fail) > StageNo("mktemp")

\* The temp file is still on disk when the request completes: it is removed
\* only by line 167, which only the success path reaches.
TempLeft(filename, fail) ==
    /\ TempCreated(filename, fail)
    /\ FailStage(filename, fail) <= StageNo("unlink")
    /\ fail # "unlink_missing"

\* Line 162 assigned vector_db_instance: create_vector_db returned.
IndexAssigned(filename, fail) == FailStage(filename, fail) > StageNo("embed")

FlagAssignedBeforeEmbed(filename, fail) == FailStage(filename, fail) > StageNo("split")

\* Line 164 assigned pdf_loaded: reached as soon as line 162 completed.
FlagAssigned(filename, fail) == FailStage(filename, fail) > StageNo("embed")

\* The inputs that matter: a request rejected at line 146 reads no content
\* and reaches no later statement.
UploadedPdfs(filename) == IF endswith(filename, PdfSuffix) THEN Pdfs ELSE {"A"}
UploadFailPoints(filename) == IF endswith(filename, PdfSuffix) THEN FailPoints ELSE {"none"}

upload_pdf(filename, pdf, fail) ==
    LET n      == nUploads + 1
        raised == UploadRaised(UploadBodyException(filename, fail))
        status == IF raised.kind = "none" THEN 200 ELSE raised.status_code
    IN
    /\ nUploads < MaxUploads
    /\ nUploads' = n
    /\ vector_db_instance' =
          IF IndexAssigned(filename, fail) THEN [pdf |-> pdf, up |-> n]
          ELSE vector_db_instance
    /\ pdf_loaded' = IF FlagAssigned(filename, fail) THEN TRUE ELSE pdf_loaded
    /\ tmp_files' = IF TempLeft(filename, fail) THEN tmp_files \cup {n} ELSE tmp_files
    /\ resp' = [NoResp EXCEPT
                  !.op = "upload_pdf", !.status = status, !.detail = raised.detail,
                  !.filename = filename, !.fail = fail]
    /\ lastOk' = IF status = 200 THEN [kind |-> "upload", up |-> n, pdf |-> pdf] ELSE lastOk

----------------------------------------------------------------------------
(* DELETE /pdf                                                    main.py:206 *)

clear_pdf ==
    /\ vector_db_instance' = None
    /\ pdf_loaded' = FALSE
    /\ resp' = [NoResp EXCEPT !.op = "clear_pdf", !.status = 200,
                              !.detail = "PDF cleared successfully"]
    /\ lastOk' = [kind |-> "delete", up |-> 0, pdf |-> "None"]
    /\ UNCHANGED <<tmp_files, nUploads>>

----------------------------------------------------------------------------
(* POST /chat/pdf                                                 main.py:174 *)

\* Chunk metadata is a dict, here a set of <<key, value>> pairs.
Metadatas ==
    { {<<"page", "0">>},                            \* no 'source' key
      {<<"source", "s1">>, <<"page", "0">>},
      {<<"source", "s2">>} }

\* dict.get(key, default)
metadata_get(md, key, default) ==
    IF \E kv \in md : kv[1] = key
    THEN (CHOOSE kv \in md : kv[1] = key)[2]
    ELSE default

\* What the retriever can return from index vdb: chunks of that index only.
RetrievedDocs(vdb) ==
    IF vdb = None THEN {<<>>} ELSE
    SeqsUpTo({ [pdf |-> vdb.pdf, up |-> vdb.up, metadata |-> md] : md \in Metadatas }, MaxDocs)

Range(seq) == { seq[i] : i \in 1..Len(seq) }

\* The loop of lines 190-194 from document i on, sources collected so far.
RECURSIVE SourcesLoop(_, _, _)
SourcesLoop(docs, i, sources) ==
    IF i > Len(docs) THEN sources
    ELSE LET source == metadata_get(docs[i].metadata, "source", "Unknown")
         IN  SourcesLoop(docs, i + 1,
                         IF source \notin Range(sources)
                         THEN Append(sources, source)
                         ELSE sources)

RECURSIVE SourcesLoopNoDedup(_, _, _)
SourcesLoopNoDedup(docs, i, sources) ==
    IF i > Len(docs) THEN sources
    ELSE SourcesLoopNoDedup(docs, i + 1,
                            Append(sources, metadata_get(docs[i].metadata, "source", "Unknown")))

ExtractSourcesNoDedup(docs) == SourcesLoopNoDedup(docs, 1, <<>>)

\* Lines 189-194: sources = []; for doc in results['source_documents']: ...
ExtractSources(docs) == SourcesLoop(docs, 1, <<>>)

\* Line 180: not pdf_loaded or vector_db_instance is None
NoPdfLoaded == ~pdf_loaded \/ vector_db_instance = None

\* The exception leaving the try block's body.
PdfChatBodyException(rag_fail) ==
    IF NoPdfLoaded
    THEN HTTPException(400, "No PDF loaded. Please upload a PDF first using /upload-pdf endpoint")
    ELSE IF rag_fail THEN OtherException("rag_query") ELSE NoExc

PdfChatRaisedWrapAll(exc) ==
    IF exc.kind = "none" THEN NoExc
    ELSE HTTPException(500, "Error processing PDF chat")

\* except HTTPException: raise / except Exception: raise HTTPException(500)
PdfChatRaised(exc) ==
    IF exc.kind = "none" THEN NoExc
    ELSE IF exc.kind = "HTTPException" THEN exc
    ELSE HTTPException(500, "Error processing PDF chat")

\* results['result'], the answer of the retrieval chain.
Answers == {"r1"}

pdf_chat(rag_fail, docs, result) ==
    LET raised  == PdfChatRaised(PdfChatBodyException(rag_fail))
        invoked == ~NoPdfLoaded            \* line 187 reached: rag_query called
        ok      == raised.kind = "none"
    IN
    /\ resp' = [NoResp EXCEPT
                  !.op = "pdf_chat",
                  !.status = IF ok THEN 200 ELSE raised.status_code,
                  !.detail = raised.detail,
                  !.rag = invoked,
                  !.index = IF invoked THEN vector_db_instance ELSE None,
                  !.docs = IF ok THEN docs ELSE <<>>,
                  !.sources = IF ok THEN ExtractSources(docs) ELSE <<>>,
                  !.response = IF ok THEN result ELSE ""]
    /\ UNCHANGED <<vector_db_instance, pdf_loaded, tmp_files, nUploads, lastOk>>

----------------------------------------------------------------------------
(* POST /chat/general                                             main.py:123 *)

Roles == {"user", "assistant"}
Contents == {"Hi"}
Messages == {"How are you?"}
ChatMessage(role, content) == [role |-> role, content |-> content]
ChatMessages == { ChatMessage(r, c) : r \in Roles, c \in Contents }

\* The 'history' member of the request body: left out, JSON null, or a list.
HistoryInputs ==
    {[tag |-> "omitted", val |-> <<>>], [tag |-> "null", val |-> <<>>]}
    \cup { [tag |-> "list", val |-> h] : h \in SeqsUpTo(ChatMessages, MaxHistory) }

\* GeneralChatRequest.history: Optional[List[ChatMessage]] = []   (line 45)
\* The field is None for JSON null and the default [] when left out.
RequestHistory(h) ==
    [is_none |-> (h.tag = "null"), val |-> IF h.tag = "list" THEN h.val ELSE <<>>]

\* Lines 128-129: request.history.copy() then append the new user message.
\* None has no copy(): AttributeError.
HistoryRaises(h) == RequestHistory(h).is_none

NewHistory(h, message) == Append(RequestHistory(h).val, ChatMessage("user", message))

\* llm_answer, lines 61-66: one dict per message, in order.
RECURSIVE LlmMessages(_)
LlmMessages(history) ==
    IF history = <<>> THEN <<>>
    ELSE <<[role |-> Head(history).role, content |-> Head(history).content]>>
         \o LlmMessages(Tail(history))

\* What the hosted chat-completion call does: raise, or return a completion.
Completions == {"c1", "c2"}
LlmOutcomes == {"raise"} \cup Completions

general_chat(message, h, llm) ==
    LET called == ~HistoryRaises(h)         \* line 132 reached: the LLM is called
        ok     == called /\ llm # "raise"
    IN
    /\ resp' = [NoResp EXCEPT
                  !.op = "general_chat",
                  !.status = IF ok THEN 200 ELSE 500,        \* lines 74, 137
                  !.detail = IF ok THEN "" ELSE "Error processing general chat",
                  !.history = h, !.message = message,
                  !.llm_called = called,
                  !.llm_messages = IF called THEN LlmMessages(NewHistory(h, message)) ELSE <<>>,
                  !.response = IF ok THEN llm ELSE ""]
    /\ UNCHANGED <<vector_db_instance, pdf_loaded, tmp_files, nUploads, lastOk>>

----------------------------------------------------------------------------
(* One request at a time *)

Init ==
    /\ vector_db_instance = None          \* line 35
    /\ pdf_loaded = FALSE                 \* line 36
    /\ tmp_files = {}
    /\ nUploads = 0
    /\ resp = NoResp
    /\ lastOk = [kind |-> "none", up |-> 0, pdf |-> "None"]

Next ==
    \/ get_status
    \/ \E filename \in Filenames :
          \E pdf \in UploadedPdfs(filename), fail \in UploadFailPoints(filename) :
             upload_pdf(filename, pdf, fail)
    \/ clear_pdf
    \/ \E rag_fail \in BOOLEAN, result \in Answers :
          \E docs \in (IF rag_fail THEN {<<>>} ELSE RetrievedDocs(vector_db_instance)) :
             pdf_chat(rag_fail, docs, result)
    \/ \E message \in Messages, h \in HistoryInputs :
          \E llm \in (IF HistoryRaises(h) THEN {"raise"} ELSE LlmOutcomes) :
             general_chat(message, h, llm)

Spec == Init /\ [][Next]_vars

----------------------------------------------------------------------------
(* Properties *)

IsUploadStep == nUploads' = nUploads + 1

\* C1: after every completed request, in any sequence of requests handled
\* one at a time, pdf_loaded is true iff vector_db_instance is not None.
C1_FlagIffIndex == pdf_loaded <=> (vector_db_instance # None)

\* C1 witness: an upload that failed while building the index, after an
\* earlier upload and a DELETE, left neither flag nor index.
C1_Witness ==
    /\ resp.op = "upload_pdf" /\ resp.fail = "embed" /\ resp.status = 500
    /\ endswith(resp.filename, PdfSuffix)
    /\ lastOk.kind = "delete" /\ nUploads = 2
    /\ ~pdf_loaded /\ vector_db_instance = None

\* C2 (as claimed): an upload that ends in an error response leaves the index
\* and the flag exactly as they were; only an upload that returns success
\* changes them.
C2_FailedUploadLeavesState ==
    [][ (IsUploadStep /\ resp'.status # 200)
           => (vector_db_instance' = vector_db_instance /\ pdf_loaded' = pdf_loaded) ]_vars

\* C3 (as claimed): an upload whose file name does not end in '.pdf' is
\* answered with HTTP status 400.
C3_NonPdfRejected400 ==
    (resp.op = "upload_pdf" /\ ~endswith(resp.filename, PdfSuffix)) => resp.status = 400

\* C4: /chat/pdf with no document indexed answers 400 and does not call the
\* retrieval query; the retrieval query runs only with the flag true and the
\* index not None, on the current index.
C4_NoPdfPrecondition ==
    resp.op = "pdf_chat" =>
        /\ (~pdf_loaded \/ vector_db_instance = None)
              => (resp.status = 400 /\ ~resp.rag /\ ~resp.llm_called)
        /\ resp.rag => (pdf_loaded /\ vector_db_instance # None
                        /\ resp.index = vector_db_instance)

\* C4 witness: a /chat/pdf request answered 400 after the document was
\* deleted.
C4_Witness ==
    /\ resp.op = "pdf_chat" /\ resp.status = 400 /\ ~resp.rag
    /\ lastOk.kind = "delete" /\ nUploads > 0 /\ ~pdf_loaded

\* C5 (as claimed): /status reports pdf_loaded = true and pdf_chat =
\* "Available" iff the most recent successful upload or DELETE was an upload,
\* and false / "No PDF loaded" otherwise; DELETE always succeeds and leaves
\* pdf_loaded false.
C5_StatusFollowsLastSuccess ==
    /\ resp.op = "get_status" =>
          /\ resp.status = 200
          /\ resp.pdf_loaded <=> (lastOk.kind = "upload")
          /\ resp.pdf_chat = (IF lastOk.kind = "upload" THEN "Available" ELSE "No PDF loaded")
    /\ resp.op = "clear_pdf" => (resp.status = 200 /\ ~pdf_loaded)

\* C6 (as claimed): a /chat/pdf query that runs the retrieval uses the index
\* of the most recent successful upload not followed by a DELETE, and every
\* retrieved chunk comes from that upload.
C6_QueryUsesLastSuccessfulUpload ==
    (resp.op = "pdf_chat" /\ resp.rag) =>
        /\ lastOk.kind = "upload"
        /\ resp.index = [pdf |-> lastOk.pdf, up |-> lastOk.up]
        /\ \A i \in 1..Len(resp.docs) : resp.docs[i].up = lastOk.up

\* C7 (as claimed): when a request has completed no temporary file written
\* by an upload is left on disk.
C7_NoTempFileLeft == tmp_files = {}

\* The source identifier of a retrieved chunk, 'Unknown' when it has none.
ChunkSource(doc) ==
    IF \E kv \in doc.metadata : kv[1] = "source"
    THEN (CHOOSE kv \in doc.metadata : kv[1] = "source")[2]
    ELSE "Unknown"

FirstIndex(docs, src) ==
    CHOOSE i \in 1..Len(docs) :
        /\ ChunkSource(docs[i]) = src
        /\ \A j \in 1..(i - 1) : ChunkSource(docs[j]) # src

\* C8: the sources of a /chat/pdf answer hold each distinct source identifier
\* of the retrieved chunks exactly once, in order of first occurrence, with
\* 'Unknown' for a chunk without a source; one shared identifier gives a list
\* of exactly that one element.
C8_SourcesDeduplicatedInOrder ==
    (resp.op = "pdf_chat" /\ resp.status = 200) =>
        LET docs == resp.docs
            srcs == resp.sources
        IN  /\ Range(srcs) = { ChunkSource(docs[i]) : i \in 1..Len(docs) }
            /\ \A i, j \in 1..Len(srcs) : i # j => srcs[i] # srcs[j]
            /\ \A i, j \in 1..Len(srcs) :
                  i < j => FirstIndex(docs, srcs[i]) < FirstIndex(docs, srcs[j])
            /\ (docs # <<>> /\ \A i \in 1..Len(docs) : ChunkSource(docs[i]) = ChunkSource(docs[1]))
                  => srcs = <<ChunkSource(docs[1])>>

\* C8 witness: three chunks, the first and third from one source and the
\* second without a source, answered with two sources.
C8_Witness ==
    /\ resp.op = "pdf_chat" /\ resp.status = 200
    /\ Len(resp.docs) = 3
    /\ ChunkSource(resp.docs[1]) = "s2" /\ ChunkSource(resp.docs[3]) = "s2"
    /\ resp.sources = <<"s2", "Unknown">>

\* C9 (as claimed): for every /chat/general request, with the history
\* supplied, omitted or null, the LLM is sent the supplied history (empty when
\* absent) followed by one user message holding the request's message; the
\* answer is the completion, or HTTP 500 when the LLM fails.
C9_HistoryPlusOneSent ==
    resp.op = "general_chat" =>
        LET supplied == IF resp.history.tag = "list" THEN resp.history.val ELSE <<>>
        IN  /\ resp.llm_called
            /\ resp.llm_messages = Append(supplied, [role |-> "user", content |-> resp.message])
            /\ Len(resp.llm_messages) = Len(supplied) + 1
            /\ resp.status \in {200, 500}
            /\ resp.status = 200 => resp.response \in Completions

====
